---- MODULE Spec2Model ----
(***************************************************************************)
(* Model of the file-indexer TUI wizard (src/src/file-indexer-tui/main.go).*)
(*                                                                         *)
(* A Go string is a sequence of tokens; a token is a one-character string  *)
(* or, for the fixed literals of the messages, one atom.  "" is << >>.     *)
(* Paths are Go strings: "/h/e" is <<"/","h","/","e">>.                    *)
(***************************************************************************)
EXTENDS Integers, Sequences, FiniteSets, TLC

(***************************************************************************)
(* Bounds of the model                                                     *)
(***************************************************************************)
\* number of typed characters the three text inputs hold together, beyond
\* the preset output name
MaxTyped == 0

(***************************************************************************)
(* Strings                                                                 *)
(***************************************************************************)
EmptyStr == << >>

\* strings.ToLower on one character (the capitals of the model's names)
LowerChar(c) == IF c = "I" THEN "i" ELSE IF c = "R" THEN "r" ELSE c

ToLower(s) == [i \in 1..Len(s) |-> LowerChar(s[i])]

\* strings.Contains
Contains(s, sub) ==
    \E i \in 0..(Len(s) - Len(sub)) :
        \A j \in 1..Len(sub) : s[i + j] = sub[j]

\* strings.HasPrefix
HasPrefix(s, p) == Len(s) >= Len(p) /\ SubSeq(s, 1, Len(p)) = p

\* strings.HasSuffix: s ends with t
HasSuffix(s, t) ==
    Len(s) >= Len(t) /\ SubSeq(s, Len(s) - Len(t) + 1, Len(s)) = t

\* strings.TrimSuffix
TrimSuffix(s, t) == IF HasSuffix(s, t) THEN SubSeq(s, 1, Len(s) - Len(t)) ELSE s

\* mutant: no name counts as blank
IsBlank_Never(s) == FALSE

\* strings.TrimSpace(s) == "" : every character is a blank
IsBlank(s) == \A i \in 1..Len(s) : s[i] = " "

(***************************************************************************)
(* Paths (path/filepath)                                                   *)
(***************************************************************************)
RootPath == <<"/">>

LastSlash(p) == CHOOSE i \in 1..Len(p) :
                    p[i] = "/" /\ \A j \in (i + 1)..Len(p) : p[j] # "/"

\* filepath.Dir of a clean absolute path
Dir(p) == IF LastSlash(p) = 1 THEN RootPath ELSE SubSeq(p, 1, LastSlash(p) - 1)

\* filepath.Join(dir, name) for a name that is ".", ".." or has no such
\* element (Join cleans the result, so "." and ".." are resolved)
Join(dir, name) ==
    IF dir = EmptyStr THEN name
    ELSE IF name = EmptyStr \/ name = <<".">> THEN dir
    ELSE IF name = <<".", ".">> THEN Dir(dir)
    ELSE IF dir = RootPath THEN dir \o name
    ELSE dir \o <<"/">> \o name

(***************************************************************************)
(* The file system the program runs on: a fixed snapshot.                  *)
(*   /            h/                                                       *)
(*   /h           " "/  .c/  Invoices/  Reports/  e/  report.pdf/  (home)  *)
(*   /h/" "       f          (the name is one space)                       *)
(*   /h/.c        f                                                        *)
(*   /h/Invoices  f          (modified last)                               *)
(*   /h/report.pdf f                                                       *)
(*   /h/Reports   f          (modified first)                              *)
(*   /h/e         ee/                                                      *)
(*   /h/e/ee      (nothing)                                                *)
(* os.ReadDir returns the children sorted by name.                         *)
(***************************************************************************)
HomeDir == <<"/", "h">>

Invoices == <<"I", "n", "v", "o", "i", "c", "e", "s">>

ReportPdf == <<"r", "e", "p", "o", "r", "t", ".", "p", "d", "f">>

Reports == <<"R", "e", "p", "o", "r", "t", "s">>

DirEntry(n, d, t) == [name |-> n, isDir |-> d, modTime |-> t]

FSDirs == { RootPath, HomeDir,
            HomeDir \o <<"/", " ">>,
            HomeDir \o <<"/", ".", "c">>,
            HomeDir \o <<"/">> \o Invoices,
            HomeDir \o <<"/">> \o ReportPdf,
            HomeDir \o <<"/">> \o Reports,
            HomeDir \o <<"/", "e">>,
            HomeDir \o <<"/", "e", "/", "e", "e">> }

FSChildren(p) ==
    IF p = RootPath THEN << DirEntry(<<"h">>, TRUE, 1) >>
    ELSE IF p = HomeDir THEN
        << DirEntry(<<" ">>, TRUE, 6),
           DirEntry(<<".", "c">>, TRUE, 5), DirEntry(Invoices, TRUE, 3),
           DirEntry(Reports, TRUE, 1), DirEntry(<<"e">>, TRUE, 4),
           DirEntry(ReportPdf, TRUE, 2) >>
    ELSE IF p = HomeDir \o <<"/", "e">> THEN << DirEntry(<<"e", "e">>, TRUE, 1) >>
    ELSE IF p = HomeDir \o <<"/", "e", "/", "e", "e">> THEN << >>
    ELSE << DirEntry(<<"f">>, FALSE, 1) >>

\* os.ReadDir: ok is FALSE when the call returns an error
ReadDir(p) == IF p \in FSDirs THEN [ok |-> TRUE, entries |-> FSChildren(p)]
              ELSE [ok |-> FALSE, entries |-> << >>]

\* os.Stat(dir) succeeds and info.IsDir()
IsExistingDir(p) == p \in FSDirs

(***************************************************************************)
(* Filesystem lister                                                       *)
(***************************************************************************)
\* mutant: only the directory's own entries are looked at
isDirEmpty_Shallow(dirPath) ==
    LET r == ReadDir(dirPath) IN
    IF ~r.ok THEN TRUE
    ELSE ~(\E i \in 1..Len(r.entries) : ~r.entries[i].isDir)

RECURSIVE isDirEmpty(_)
isDirEmpty(dirPath) ==
    LET r == ReadDir(dirPath) IN
    IF ~r.ok THEN TRUE
    ELSE IF \E i \in 1..Len(r.entries) : ~r.entries[i].isDir THEN FALSE
    ELSE \A i \in 1..Len(r.entries) :
            isDirEmpty(Join(dirPath, r.entries[i].name))

directoryItem(n, p, d, t) == [name |-> n, path |-> p, isDir |-> d, modTime |-> t]

\* sort.Slice(dirItems, modTime.After): most recent first
RECURSIVE SortByModTime(_)
SortByModTime(items) ==
    IF items = << >> THEN << >>
    ELSE LET i == CHOOSE k \in 1..Len(items) :
                     \A j \in 1..Len(items) : items[k].modTime >= items[j].modTime
             rest == SubSeq(items, 1, i - 1) \o SubSeq(items, i + 1, Len(items))
         IN <<items[i]>> \o SortByModTime(rest)

\* mutant: hidden directories are listed too
RECURSIVE CollectDirs_KeepsHidden(_, _)
CollectDirs_KeepsHidden(dirPath, entries) ==
    IF entries = << >> THEN << >>
    ELSE LET entry == Head(entries)
             name == entry.name
             fullPath == Join(dirPath, name)
             keep == /\ entry.isDir
                     /\ ~IsBlank(name)
                     /\ ~isDirEmpty(fullPath)
         IN (IF keep THEN << directoryItem(name, fullPath, TRUE, entry.modTime) >>
             ELSE << >>) \o CollectDirs_KeepsHidden(dirPath, Tail(entries))

\* the loop of getDirectoryItems over the entries of os.ReadDir
RECURSIVE CollectDirs(_, _)
CollectDirs(dirPath, entries) ==
    IF entries = << >> THEN << >>
    ELSE LET entry == Head(entries)
             name == entry.name
             fullPath == Join(dirPath, name)
             keep == /\ entry.isDir
                     /\ ~(name = EmptyStr \/ HasPrefix(name, <<".">>))
                     /\ ~IsBlank(name)
                     /\ ~isDirEmpty(fullPath)
         IN (IF keep THEN << directoryItem(name, fullPath, TRUE, entry.modTime) >>
             ELSE << >>) \o CollectDirs(dirPath, Tail(entries))

\* mutant: a directory that cannot be read lists nothing at all
getDirectoryItems_EmptyOnError(dirPath) ==
    LET parent == Dir(dirPath)
        items == IF parent # dirPath
                 THEN << directoryItem(<<".", ".">>, parent, TRUE, 0) >>
                 ELSE << >>
        r == ReadDir(dirPath)
    IN IF ~r.ok THEN << >>
       ELSE items \o SortByModTime(CollectDirs(dirPath, r.entries))

getDirectoryItems(dirPath) ==
    LET parent == Dir(dirPath)
        items == IF parent # dirPath
                 THEN << directoryItem(<<".", ".">>, parent, TRUE, 0) >>
                 ELSE << >>
        r == ReadDir(dirPath)
    IN IF ~r.ok THEN items
       ELSE items \o SortByModTime(CollectDirs(dirPath, r.entries))

\* every list.Item of the list is a directoryItem
convertToDirectoryItems(items) == items

RECURSIVE filterLoop(_, _)
filterLoop(dirs, filter) ==
    IF dirs = << >> THEN << >>
    ELSE (IF Contains(ToLower(Head(dirs).name), filter) THEN <<Head(dirs)>> ELSE << >>)
         \o filterLoop(Tail(dirs), filter)

\* mutant: an empty filter matches nothing
filterDirectories_EmptyMatchesNothing(dirs, filter) ==
    IF filter = EmptyStr THEN << >> ELSE filterLoop(dirs, ToLower(filter))

filterDirectories(dirs, filter) ==
    IF filter = EmptyStr THEN dirs ELSE filterLoop(dirs, ToLower(filter))

\* getDownloadsDirectory with os.UserHomeDir() = HomeDir
RECURSIVE FirstExisting(_)
FirstExisting(dirs) ==
    IF dirs = << >> THEN <<".">>
    ELSE IF IsExistingDir(Head(dirs)) THEN Head(dirs)
    ELSE FirstExisting(Tail(dirs))

getDownloadsDirectory ==
    FirstExisting(<< Join(HomeDir, <<"D", "o", "w", "n", "l", "o", "a", "d", "s">>),
                     Join(HomeDir, <<"D", "o", "w", "n", "l", "o", "a", "d">>),
                     Join(HomeDir, <<"D", "o", "c", "u", "m", "e", "n", "t", "s">>),
                     HomeDir,
                     <<".">> >>)

(***************************************************************************)
(* Keys.  A key is the value of msg.String().  The case labels "n", "j",   *)
(* "k", "space" and "\x04" are aliases of "right", "down", "up", " " and   *)
(* "ctrl+d" and are left out.                                              *)
(***************************************************************************)
Runes == {"q", "r", "b", "i", "d", "e", "p", "1", "2", "3", "4", " ", "."}

ControlKeys == {"ctrl+c", "ctrl+e", "ctrl+d", "ctrl+u", "esc", "enter", "tab",
                "backspace", "left", "right", "up", "down"}

Keys == Runes \cup ControlKeys

(***************************************************************************)
(* bubbles/textinput: the value and the focus flag.  The cursor of the     *)
(* input stays at the end of the value.                                    *)
(***************************************************************************)
textinputNew == [value |-> EmptyStr, focus |-> FALSE]

Focus(ti) == [ti EXCEPT !.focus = TRUE]

Blur(ti) == [ti EXCEPT !.focus = FALSE]

SetValue(ti, v) == [ti EXCEPT !.value = v]

\* textinput.Model.Update on a key message
textinputUpdate(ti, k) ==
    IF ~ti.focus THEN ti
    ELSE IF k \in Runes THEN [ti EXCEPT !.value = Append(@, k)]
    ELSE IF k = "backspace" /\ ti.value # EmptyStr
         THEN [ti EXCEPT !.value = SubSeq(@, 1, Len(@) - 1)]
    ELSE IF k = "ctrl+u" THEN [ti EXCEPT !.value = EmptyStr]
    ELSE ti

(***************************************************************************)
(* bubbles/list: the items and the index of the highlighted item.  Every   *)
(* listing of the model fits on one page.                                  *)
(***************************************************************************)
listNew(items) == [items |-> items, index |-> 0]

SetItems(l, items) == [l EXCEPT !.items = items]

Select(l, i) == [l EXCEPT !.index = i]

\* list.Model.SelectedItem: ok is FALSE when it returns nil
SelectedItem(l) ==
    IF l.index < 0 \/ Len(l.items) = 0 \/ Len(l.items) <= l.index
    THEN [ok |-> FALSE, item |-> directoryItem(EmptyStr, EmptyStr, FALSE, 0)]
    ELSE [ok |-> TRUE, item |-> l.items[l.index + 1]]

Max(a, b) == IF a >= b THEN a ELSE b

Min(a, b) == IF a <= b THEN a ELSE b

CursorUp(l) == [l EXCEPT !.index = Max(0, @ - 1)]

\* mutant: past the last item the cursor goes back to the first
CursorDown_Wraps(l) ==
    [l EXCEPT !.index = IF @ + 1 >= Len(l.items) THEN 0 ELSE @ + 1]

CursorDown(l) == [l EXCEPT !.index = Max(0, Min(Len(l.items) - 1, @ + 1))]

\* list.Model.Update on a key message while the list is unfiltered: the
\* default key map binds up/down to the cursor and esc to quit
listUpdate(l, k) ==
    IF k = "up" THEN [l |-> CursorUp(l), cmd |-> "nil"]
    ELSE IF k = "down" THEN [l |-> CursorDown(l), cmd |-> "nil"]
    ELSE IF k = "esc" THEN [l |-> l, cmd |-> "quit"]
    ELSE [l |-> l, cmd |-> "nil"]

(***************************************************************************)
(* The model                                                               *)
(***************************************************************************)
States == {"selectingDirectory", "selectingOutput", "selectingLitigant",
           "configuring", "processing", "finished"}

IndexName == <<"i", "n", "d", "e", "x">>

initialModel ==
    LET startDir == getDownloadsDirectory
        items == getDirectoryItems(startDir)
    IN [ state          |-> "selectingDirectory",
         directoryList  |-> listNew(items),
         currentPath    |-> startDir,
         outputInput    |-> Focus(textinputNew),
         litigantInput  |-> textinputNew,
         selectedDir    |-> EmptyStr,
         outputPath     |-> EmptyStr,
         litigantName   |-> EmptyStr,
         exportFormat   |-> "excel",
         debugMode      |-> FALSE,
         processing     |-> FALSE,
         result         |-> EmptyStr,
         error          |-> EmptyStr,
         filtering      |-> FALSE,
         filterInput    |-> textinputNew,
         allDirectories |-> convertToDirectoryItems(items),
         filteredDirs   |-> << >>,
         advancedMode   |-> FALSE,
         isSpanish      |-> TRUE ]

\* what one pass through Update's key switch leaves: the model, the command
\* and whether the case returned (done) or fell out of the switch
Ret(mm, c) == [m |-> mm, cmd |-> c, done |-> TRUE]

Fall(mm) == [m |-> mm, cmd |-> "nil", done |-> FALSE]

\* mutant: the new listing is shown with the cursor left where it was
Relist_KeepsCursor(mm, path) ==
    LET items == getDirectoryItems(path)
    IN [mm EXCEPT !.currentPath = path,
                  !.directoryList = SetItems(@, items),
                  !.allDirectories = convertToDirectoryItems(items)]

\* mutant: the path changes and the list keeps showing the old items
Relist_KeepsItems(mm, path) ==
    LET items == getDirectoryItems(path)
    IN [mm EXCEPT !.currentPath = path,
                  !.directoryList = Select(@, 0),
                  !.allDirectories = convertToDirectoryItems(items)]

\* mutant: the listing changes and the path stays
Relist_KeepsPath(mm, path) ==
    LET items == getDirectoryItems(path)
    IN [mm EXCEPT !.directoryList = Select(SetItems(@, items), 0),
                  !.allDirectories = convertToDirectoryItems(items)]

\* the five places of Update that move to another directory and re-list it
Relist(mm, path) ==
    LET items == getDirectoryItems(path)
    IN [mm EXCEPT !.currentPath = path,
                  !.directoryList = Select(SetItems(@, items), 0),
                  !.allDirectories = convertToDirectoryItems(items)]

\* case selectingDirectory, m.filtering
UpdateFiltering(mm, k) ==
    IF k \in {"ctrl+c", "q"} THEN Ret(mm, "quit")
    ELSE IF k = "esc" THEN
        Ret([Relist(mm, mm.currentPath) EXCEPT
                 !.filtering = FALSE,
                 !.filterInput = Blur(SetValue(@, EmptyStr))], "nil")
    ELSE IF k = "enter" THEN
        Ret([mm EXCEPT !.filtering = FALSE, !.filterInput = Blur(@)], "nil")
    ELSE IF k = "tab" THEN
        Ret(IF Len(mm.filteredDirs) > 0
            THEN [mm EXCEPT !.filterInput = SetValue(@, mm.filteredDirs[1].name)]
            ELSE mm, "nil")
    ELSE LET fi == textinputUpdate(mm.filterInput, k)
             filtered == filterDirectories(mm.allDirectories, fi.value)
         IN Ret([mm EXCEPT !.filterInput = fi,
                           !.filteredDirs = filtered,
                           !.directoryList = Select(SetItems(@, filtered), 0)], "nil")

\* mutant: the directory is recorded without leaving the step
selectDir_Stays(mm, path) == [mm EXCEPT !.selectedDir = path]

\* mutant: the output name is left as it was
selectDir_KeepsName(mm, path) ==
    [mm EXCEPT !.selectedDir = path, !.state = "selectingOutput"]

\* the directory is chosen: on to the output name
selectDir(mm, path) ==
    [mm EXCEPT !.selectedDir = path,
               !.state = "selectingOutput",
               !.outputInput = SetValue(@, IndexName)]

\* case selectingDirectory, normal directory navigation mode
UpdateBrowsing(mm, k) ==
    LET sel == SelectedItem(mm.directoryList)
    IN
    IF k \in {"ctrl+c", "q"} THEN Ret(mm, "quit")
    ELSE IF k = "ctrl+d" THEN Ret([mm EXCEPT !.advancedMode = ~@], "nil")
    ELSE IF k = "i" THEN
        LET items == getDirectoryItems(mm.currentPath)
        IN Ret([mm EXCEPT !.filtering = TRUE,
                          !.filterInput = SetValue(Focus(@), EmptyStr),
                          !.allDirectories = convertToDirectoryItems(items),
                          !.filteredDirs = convertToDirectoryItems(items)], "nil")
    ELSE IF k = "enter" THEN
        IF sel.ok
        THEN IF sel.item.name = <<".", ".">>
             THEN Ret(Relist(mm, sel.item.path), "nil")
             ELSE Ret(selectDir(mm, sel.item.path), "nil")
        ELSE Fall(mm)
    ELSE IF k = " " THEN Ret(selectDir(mm, mm.currentPath), "nil")
    ELSE IF k = "left" THEN
        IF Dir(mm.currentPath) # mm.currentPath
        THEN Ret(Relist(mm, Dir(mm.currentPath)), "nil")
        ELSE Fall(mm)
    ELSE IF k = "right" THEN
        IF sel.ok /\ sel.item.isDir /\ sel.item.name # <<".", ".">>
        THEN Ret(Relist(mm, sel.item.path), "nil")
        ELSE Fall(mm)
    ELSE Fall(mm)

\* mutant: the confirm of the review step launches without leaving the step
toProcessing_Stays(mm) == mm

toProcessing(mm) == [mm EXCEPT !.state = "processing"]

\* mutant: the confirmed name is not stored
toLitigant_KeepsPath(mm) ==
    [mm EXCEPT !.state = "selectingLitigant", !.litigantInput = Focus(@)]

\* mutant: the default name is stored, whatever the input holds
toLitigant_StoresDefault(mm) ==
    [mm EXCEPT !.outputPath = IndexName,
               !.state = "selectingLitigant",
               !.litigantInput = Focus(@)]

toLitigant(mm) ==
    [mm EXCEPT !.outputPath = mm.outputInput.value,
               !.state = "selectingLitigant",
               !.litigantInput = Focus(@)]

\* case selectingOutput
UpdateOutput(mm, k) ==
    IF k \in {"ctrl+c", "q"} THEN Ret(mm, "quit")
    ELSE IF k = "ctrl+d" THEN
        LET t == [mm EXCEPT !.advancedMode = ~@]
        IN Ret(IF ~IsBlank(mm.outputInput.value) THEN toLitigant(t) ELSE t, "nil")
    ELSE IF k \in {"b", "backspace", "esc"} THEN
        Ret([mm EXCEPT !.state = "selectingDirectory"], "nil")
    ELSE IF k = "enter" THEN
        IF mm.outputInput.value # EmptyStr THEN Ret(toLitigant(mm), "nil") ELSE Fall(mm)
    ELSE Fall(mm)

\* case selectingLitigant
UpdateLitigant(mm, k) ==
    IF k \in {"ctrl+c", "q"} THEN Ret(mm, "quit")
    ELSE IF k \in {"b", "backspace", "esc"} THEN
        Ret([mm EXCEPT !.state = "selectingOutput", !.outputInput = Focus(@)], "nil")
    ELSE IF k = "enter" THEN
        Ret([mm EXCEPT !.litigantName = mm.litigantInput.value,
                       !.state = "configuring"], "nil")
    ELSE Fall(mm)

\* mutant: the cycle of the formats leaves out "both"
NextFormat_SkipsBoth(f) == IF f = "excel" THEN "csv" ELSE "excel"

NextFormat(f) == IF f = "excel" THEN "csv" ELSE IF f = "csv" THEN "both" ELSE "excel"

configuringBack(mm) == [mm EXCEPT !.state = "selectingOutput"]

\* case configuring
UpdateConfiguring(mm, k) ==
    IF k \in {"ctrl+c", "q"} THEN Ret(mm, "quit")
    ELSE IF k = "ctrl+d" THEN Ret([mm EXCEPT !.advancedMode = ~@], "nil")
    ELSE IF k = "1" THEN Ret([mm EXCEPT !.state = "selectingDirectory"], "nil")
    ELSE IF k = "2" THEN Ret([mm EXCEPT !.state = "selectingOutput"], "nil")
    ELSE IF k = "3" THEN
        Ret([mm EXCEPT !.state = "selectingLitigant", !.litigantInput = Focus(@)], "nil")
    ELSE IF k = "4" THEN
        Fall(IF mm.advancedMode THEN [mm EXCEPT !.exportFormat = NextFormat(@)] ELSE mm)
    ELSE IF k = "d" THEN
        Fall(IF mm.advancedMode THEN [mm EXCEPT !.debugMode = ~@] ELSE mm)
    ELSE IF k \in {"b", "backspace", "esc"} THEN Ret(configuringBack(mm), "nil")
    ELSE IF k = "enter" THEN Ret(toProcessing(mm), "run")
    ELSE Fall(mm)

\* mutant: Processing honours the back key
UpdateProcessing_AllowsBack(mm, k) ==
    IF k \in {"ctrl+c", "q"} THEN Ret(mm, "quit")
    ELSE IF k \in {"b", "backspace", "esc"} THEN Ret([mm EXCEPT !.state = "configuring"], "nil")
    ELSE Fall(mm)

\* mutant: Processing has no quit case
UpdateProcessing_NoQuit(mm, k) == Fall(mm)

\* case processing
UpdateProcessing(mm, k) ==
    IF k \in {"ctrl+c", "q"} THEN Ret(mm, "quit") ELSE Fall(mm)

\* mutant: back from Finished keeps the error text
finishedBack_KeepsError(mm) ==
    [mm EXCEPT !.state = "configuring", !.result = EmptyStr]

\* mutant: back from Finished re-opens the naming step
finishedBack_ToOutput(mm) ==
    [mm EXCEPT !.state = "selectingOutput", !.error = EmptyStr, !.result = EmptyStr]

finishedBack(mm) ==
    [mm EXCEPT !.state = "configuring", !.error = EmptyStr, !.result = EmptyStr]

\* case finished
UpdateFinished(mm, k) ==
    IF k \in {"ctrl+c", "q"} THEN Ret(mm, "quit")
    ELSE IF k = "r" THEN Ret(initialModel, "nil")
    ELSE IF k \in {"b", "backspace"} THEN Ret(finishedBack(mm), "nil")
    ELSE IF k \in {"enter", "esc"} THEN Ret(mm, "quit")
    ELSE Fall(mm)

\* "Update components based on state", reached by the keys whose case did
\* not return
UpdateComponents(mm, k) ==
    IF mm.state = "selectingDirectory" THEN
        IF k \in {"up", "down"} THEN
            LET u == listUpdate(mm.directoryList, k)
            IN [m |-> [mm EXCEPT !.directoryList = u.l], cmd |-> u.cmd]
        ELSE IF k \in {"left", "right"} THEN [m |-> mm, cmd |-> "nil"]
        ELSE IF ~mm.filtering THEN
            LET u == listUpdate(mm.directoryList, k)
            IN [m |-> [mm EXCEPT !.directoryList = u.l], cmd |-> u.cmd]
        ELSE [m |-> mm, cmd |-> "nil"]
    ELSE IF mm.state = "selectingOutput" THEN
        [m |-> [mm EXCEPT !.outputInput = textinputUpdate(@, k)], cmd |-> "nil"]
    ELSE IF mm.state = "selectingLitigant" THEN
        [m |-> [mm EXCEPT !.litigantInput = textinputUpdate(@, k)], cmd |-> "nil"]
    ELSE [m |-> mm, cmd |-> "nil"]

\* mutant: the first step has no filtering branch
UpdateState_IgnoresFiltering(mm, k) ==
    IF mm.state = "selectingDirectory" THEN UpdateBrowsing(mm, k)
    ELSE IF mm.state = "selectingOutput" THEN UpdateOutput(mm, k)
    ELSE IF mm.state = "selectingLitigant" THEN UpdateLitigant(mm, k)
    ELSE IF mm.state = "configuring" THEN UpdateConfiguring(mm, k)
    ELSE IF mm.state = "processing" THEN UpdateProcessing(mm, k)
    ELSE UpdateFinished(mm, k)

\* switch m.state of the key branch
UpdateState(mm, k) ==
    IF mm.state = "selectingDirectory" THEN
        IF mm.filtering THEN UpdateFiltering(mm, k) ELSE UpdateBrowsing(mm, k)
    ELSE IF mm.state = "selectingOutput" THEN UpdateOutput(mm, k)
    ELSE IF mm.state = "selectingLitigant" THEN UpdateLitigant(mm, k)
    ELSE IF mm.state = "configuring" THEN UpdateConfiguring(mm, k)
    ELSE IF mm.state = "processing" THEN UpdateProcessing(mm, k)
    ELSE UpdateFinished(mm, k)

\* mutant: the reset shortcut has no exception
resetAllowed_Always(mm) == TRUE

\* mutant: the reset shortcut is honoured while browsing only
resetAllowed_BrowsingOnly(mm) == mm.state = "selectingDirectory"

\* the reset shortcut is honoured in this state
resetAllowed(mm) == mm.state # "processing"

\* mutant: the language case does not return, the key goes on to the state
UpdateKey_LanguageFallsThrough(mm, k) ==
    LET t == IF k = "ctrl+e" THEN [mm EXCEPT !.isSpanish = ~@] ELSE mm
    IN IF k = "r" /\ resetAllowed(t) THEN [m |-> initialModel, cmd |-> "nil"]
       ELSE LET s == UpdateState(t, k)
            IN IF s.done THEN [m |-> s.m, cmd |-> s.cmd]
               ELSE UpdateComponents(s.m, k)

\* model.Update on a tea.KeyMsg: the model and the command it returns
UpdateKey(mm, k) ==
    IF k = "ctrl+e" THEN [m |-> [mm EXCEPT !.isSpanish = ~@], cmd |-> "nil"]
    ELSE IF k = "r" /\ resetAllowed(mm) THEN [m |-> initialModel, cmd |-> "nil"]
    ELSE LET s == UpdateState(mm, k)
         IN IF s.done THEN [m |-> s.m, cmd |-> s.cmd]
            ELSE UpdateComponents(s.m, k)

\* mutant: the error of the message is not stored
UpdateProcessComplete_DropsError(mm, msg) ==
    [mm EXCEPT !.processing = FALSE, !.state = "finished", !.result = msg.result]

\* model.Update on a processCompleteMsg
UpdateProcessComplete(mm, msg) ==
    LET t == [mm EXCEPT !.processing = FALSE, !.state = "finished"]
    IN IF msg.error # EmptyStr THEN [t EXCEPT !.error = msg.error]
       ELSE [t EXCEPT !.result = msg.result]

(***************************************************************************)
(* External process invoker                                                *)
(***************************************************************************)
\* the captured outputs the companion is given in the model
OutEmpty == << >>

OutDenied == <<"permission", " ", "denied">>

OutSummary == <<"processed", " ", "3", " ", "files", "\n",
                "saved", " ", "to:", " ", "/out.xlsx">>

\* both count markers, but no word before the one that holds "file"
OutNoCount == <<"files", " ", "processed">>

\* the path marker with nothing after it
OutBareSaved == <<"saved", " ", "to:">>

Outputs == {OutEmpty, OutDenied, OutSummary, OutNoCount, OutBareSaved}

\* the three candidate locations of findPythonScript, in order
searchPaths == << <<"EXECDIR/file_metadata_extractor.py">>,
                  <<"file_metadata_extractor.py">>,
                  <<"../file_metadata_extractor.py">> >>

\* how starting the interpreter ends: started, not found in PATH, or found
\* but refused by the operating system
Launches == {"ok", "notfound", "denied"}

\* what the environment decides for one run: whether os.Executable works,
\* which candidates exist, how the start of the interpreter ends, the exit
\* code and the captured output.  A step that does not happen has one value:
\* no start without a script, no exit code and no output without a start.
Envs ==
    { env \in [execOk : BOOLEAN, present : SUBSET (1..3), launch : Launches,
               exit : {0, 1}, output : Outputs] :
        /\ (~env.execOk \/ env.present = {}) => env.launch = "ok"
        /\ (~env.execOk \/ env.present = {} \/ env.launch # "ok") =>
               env.exit = 0 /\ env.output = OutEmpty }

findPythonScript(env) ==
    IF ~env.execOk THEN EmptyStr
    ELSE IF \E i \in 1..3 : i \in env.present
    THEN searchPaths[CHOOSE i \in 1..3 :
                        i \in env.present /\ \A j \in 1..(i - 1) : j \notin env.present]
    ELSE EmptyStr

NotFoundError == <<"Could not find file_metadata_extractor.py",
                   "Required files: file_metadata_extractor.py requirements.txt">>

\* err.Error() of the three kinds of error of cmd.CombinedOutput
NotFoundErrText == <<"exec: python3: ", "executable file not found", " in $PATH">>

DeniedErrText == <<"fork/exec /usr/bin/python3: ", "permission denied">>

ExitErrText == <<"exit status 1">>

ErrText(env) ==
    IF env.launch = "notfound" THEN NotFoundErrText
    ELSE IF env.launch = "denied" THEN DeniedErrText
    ELSE ExitErrText

Guidance == <<"Python is not installed or not in PATH", "Solutions">>

\* the --output argument
fullOutputPath(mm) ==
    LET filename == IF ~Contains(mm.outputPath, <<".">>)
                    THEN mm.outputPath \o
                         (IF mm.exportFormat = "csv" THEN <<".", "c", "s", "v">>
                          ELSE <<".", "x", "l", "s", "x">>)
                    ELSE mm.outputPath
    IN Join(mm.selectedDir, filename)

\* model.View, case selectingOutput: the path shown after "Will save as"
previewPath(mm) ==
    LET previewName == IF ~Contains(mm.outputInput.value, <<".">>)
                       THEN mm.outputInput.value \o <<".", "x", "l", "s", "x">>
                       ELSE mm.outputInput.value
    IN Join(mm.selectedDir, previewName)

\* mutant: the format flag follows the debug flag
commandArgs_DebugFirst(mm, scriptPath) ==
    <<scriptPath, <<"--directory">>, mm.selectedDir,
      <<"--output">>, fullOutputPath(mm)>>
    \o (IF mm.debugMode THEN << <<"--debug">> >> ELSE << >>)
    \o (IF mm.exportFormat = "csv" THEN << <<"--csv-only">> >>
        ELSE IF mm.exportFormat = "both" THEN << <<"--csv">> >>
        ELSE << >>)
    \o (IF mm.litigantName # EmptyStr
        THEN << <<"--litigant">>, mm.litigantName >> ELSE << >>)

\* the arguments of exec.Command after the interpreter's name
commandArgs(mm, scriptPath) ==
    <<scriptPath, <<"--directory">>, mm.selectedDir,
      <<"--output">>, fullOutputPath(mm)>>
    \o (IF mm.exportFormat = "csv" THEN << <<"--csv-only">> >>
        ELSE IF mm.exportFormat = "both" THEN << <<"--csv">> >>
        ELSE << >>)
    \o (IF mm.debugMode THEN << <<"--debug">> >> ELSE << >>)
    \o (IF mm.litigantName # EmptyStr
        THEN << <<"--litigant">>, mm.litigantName >> ELSE << >>)

\* strings.Split(s, sep) for a one-token separator
RECURSIVE SplitOn(_, _)
SplitOn(s, sep) ==
    IF \A i \in 1..Len(s) : s[i] # sep THEN <<s>>
    ELSE LET i == CHOOSE k \in 1..Len(s) : s[k] = sep /\ \A j \in 1..(k - 1) : s[j] # sep
         IN <<SubSeq(s, 1, i - 1)>> \o SplitOn(SubSeq(s, i + 1, Len(s)), sep)

\* strings.Fields: the words of a line
RECURSIVE DropEmpty(_)
DropEmpty(ws) ==
    IF ws = << >> THEN << >>
    ELSE (IF Head(ws) = << >> THEN << >> ELSE <<Head(ws)>>) \o DropEmpty(Tail(ws))

Fields(line) == DropEmpty(SplitOn(line, " "))

RECURSIVE TrimSpace(_)
TrimSpace(s) ==
    IF s = << >> THEN s
    ELSE IF Head(s) \in {" ", "\n"} THEN TrimSpace(Tail(s))
    ELSE IF s[Len(s)] \in {" ", "\n"} THEN TrimSpace(SubSeq(s, 1, Len(s) - 1))
    ELSE s

\* strings.Contains(word, marker) for a word of one atom
WordHas(w, marker) ==
    \E i \in 1..Len(w) : w[i] = marker \/ (marker = "file" /\ w[i] = "files")

SavedTo == <<"saved", " ", "to:">>

IndexOf(s, sub) ==
    IF Contains(s, sub)
    THEN CHOOSE i \in 1..Len(s) :
            /\ i + Len(sub) - 1 <= Len(s)
            /\ SubSeq(s, i, i + Len(sub) - 1) = sub
            /\ \A j \in 1..(i - 1) : SubSeq(s, j, j + Len(sub) - 1) # sub
    ELSE 0

\* strings.Split(line, "saved to:")[1]
AfterSavedTo(line) ==
    LET rest == SubSeq(line, IndexOf(line, SavedTo) + Len(SavedTo), Len(line))
        j == IndexOf(rest, SavedTo)
    IN IF j = 0 THEN rest ELSE SubSeq(rest, 1, j - 1)

\* mutant: without the marker no path is reported
parseSavedPath_NoDefault(outputStr, default) ==
    IF Contains(outputStr, SavedTo)
    THEN LET lines == SplitOn(outputStr, "\n")
             hit == { i \in 1..Len(lines) : Contains(lines[i], SavedTo) }
         IN TrimSpace(AfterSavedTo(lines[CHOOSE i \in hit : \A j \in hit : i <= j]))
    ELSE EmptyStr

parseSavedPath(outputStr, default) ==
    IF Contains(outputStr, SavedTo)
    THEN LET lines == SplitOn(outputStr, "\n")
             hit == { i \in 1..Len(lines) : Contains(lines[i], SavedTo) }
         IN IF hit = {} THEN default
            ELSE TrimSpace(AfterSavedTo(lines[CHOOSE i \in hit : \A j \in hit : i <= j]))
    ELSE default

parseFileCount(outputStr) ==
    IF WordHas(outputStr, "processed")
    THEN LET lines == SplitOn(outputStr, "\n")
             hit == { i \in 1..Len(lines) :
                        WordHas(lines[i], "processed") /\ WordHas(lines[i], "file") }
         IN IF hit = {} THEN <<"multiple">>
            ELSE LET words == Fields(lines[CHOOSE i \in hit : \A j \in hit : i <= j])
                     at == { i \in 2..Len(words) : WordHas(words[i], "file") }
                 IN IF at = {} THEN <<"multiple">>
                    ELSE words[(CHOOSE i \in at : \A j \in at : i <= j) - 1]
    ELSE <<"multiple">>

\* mutant: the captured output is left out of the error
executionError_NoOutput(errText, output) ==
    <<"Python execution failed: ">> \o errText
    \o (IF Contains(errText, <<"executable file not found">>)
        THEN Guidance ELSE << >>)
    \o <<"Output:">>

\* mutant: every execution error carries the guidance
executionError_GuidanceAlways(errText, output) ==
    <<"Python execution failed: ">> \o errText \o Guidance
    \o <<"Output:">> \o output

\* the error text built when cmd.CombinedOutput returns an error
executionError(errText, output) ==
    <<"Python execution failed: ">> \o errText
    \o (IF Contains(errText, <<"executable file not found">>)
        THEN Guidance ELSE << >>)
    \o <<"Output:">> \o output

\* the message the command returned by runPythonScript delivers; mm is the
\* model the closure captured
runPythonScript(mm, env) ==
    LET scriptPath == findPythonScript(env)
        output == IF env.launch = "ok" THEN env.output ELSE << >>
        failed == env.launch # "ok" \/ env.exit # 0
        errText == ErrText(env)
    IN IF scriptPath = EmptyStr
       THEN [result |-> EmptyStr, error |-> NotFoundError]
       ELSE IF failed
       THEN [result |-> EmptyStr, error |-> executionError(errText, output)]
       ELSE [result |-> <<"Index created successfully!", "Files processed: ">>
                        \o parseFileCount(output) \o <<"Saved to: ">>
                        \o parseSavedPath(output, fullOutputPath(mm))
                        \o <<"Your file index is ready to use!">>,
             error |-> EmptyStr]

(***************************************************************************)
(* The program: the event loop of Bubble Tea around model.Update           *)
(***************************************************************************)
VARIABLES
    m,        \* the model
    quit,     \* Update returned tea.Quit: the program has ended
    running,  \* the models captured by the runPythonScript commands that run
    inbox,    \* the processCompleteMsg values not yet dispatched to Update
    walk      \* an activation of isDirEmpty taken step by step, with its tree

vars == <<m, quit, running, inbox, walk>>

\* no activation of isDirEmpty is followed
NoWalk == [dirs |-> {}, files |-> {}, links |-> {}, arg |-> EmptyStr,
           stack |-> << >>, ret |-> "none", pc |-> "done"]

Init ==
    /\ m = initialModel
    /\ quit = FALSE
    /\ running = << >>
    /\ inbox = << >>
    /\ walk = NoWalk

\* the characters the text inputs hold beyond the preset output name
TypedLoad(mm) ==
    Len(mm.filterInput.value) + Len(mm.litigantInput.value)
    + (IF HasPrefix(mm.outputInput.value, IndexName)
       THEN Len(mm.outputInput.value) - Len(IndexName)
       ELSE Len(mm.outputInput.value))

\* the characters the user types into the text inputs; a text input treats
\* every rune alike
TextAlphabet == {"."}

Typed(mm, nn, k) ==
    /\ k \in Runes
    /\ \/ nn.filterInput.value = Append(mm.filterInput.value, k)
       \/ nn.outputInput.value = Append(mm.outputInput.value, k)
       \/ nn.litigantInput.value = Append(mm.litigantInput.value, k)

\* the event loop dispatches the key k to Update
KeyMsg(k) ==
    /\ ~quit
    /\ LET u == UpdateKey(m, k)
       IN /\ Typed(m, u.m, k) => k \in TextAlphabet /\ TypedLoad(u.m) <= MaxTyped
          /\ m' = u.m
          /\ quit' = (u.cmd = "quit")
          /\ running' = IF u.cmd = "run" THEN Append(running, u.m) ELSE running
    /\ UNCHANGED <<inbox, walk>>

\* a running command finishes and posts its message
RunPythonScript ==
    /\ ~quit
    /\ running # << >>
    /\ \E env \in Envs :
          inbox' = Append(inbox, runPythonScript(Head(running), env))
    /\ running' = Tail(running)
    /\ UNCHANGED <<m, quit, walk>>

\* the event loop dispatches a processCompleteMsg to Update
ProcessCompleteMsg ==
    /\ ~quit
    /\ inbox # << >>
    /\ m' = UpdateProcessComplete(m, Head(inbox))
    /\ inbox' = Tail(inbox)
    /\ UNCHANGED <<quit, running, walk>>

Next ==
    \/ \E k \in Keys : KeyMsg(k)
    \/ RunPythonScript
    \/ ProcessCompleteMsg

Spec == Init /\ [][Next]_vars

(***************************************************************************)
(* The invoker on its own: the wizard stands in the review step with a     *)
(* configuration drawn from the sets below, and a run is confirmed.        *)
(***************************************************************************)
InvokeDirs == {RootPath, HomeDir, HomeDir \o <<"/">> \o Invoices}

InvokeNames == {IndexName, <<"a", ".", "c">>, <<"a", ".", "c", "/", "x">>}

InvokeLabels == {EmptyStr, <<"x">>}

Formats == {"excel", "csv", "both"}

\* the models after the user has gone to a directory and chosen it, ...
ChosenModels ==
    { UpdateKey(Relist(initialModel, dir), " ").m : dir \in InvokeDirs }

\* ... has entered a name and confirmed it, ...
NamedModels ==
    { UpdateKey([c EXCEPT !.outputInput = SetValue(@, name)], "enter").m :
          c \in ChosenModels, name \in InvokeNames }

\* ... has entered a label and confirmed it, ...
LabelledModels ==
    { UpdateKey([n EXCEPT !.litigantInput = SetValue(@, label)], "enter").m :
          n \in NamedModels, label \in InvokeLabels }

\* ... and has set the options of the review step
ReviewModels ==
    { [l EXCEPT !.exportFormat = format, !.debugMode = debug,
                !.advancedMode = advanced] :
          l \in LabelledModels, format \in Formats,
          debug \in BOOLEAN, advanced \in BOOLEAN }

InvokeInit ==
    /\ m \in ReviewModels
    /\ quit = FALSE
    /\ running = << >>
    /\ inbox = << >>
    /\ walk = NoWalk

InvokeNext ==
    \/ KeyMsg("enter")
    \/ RunPythonScript
    \/ ProcessCompleteMsg

InvokeSpec == InvokeInit /\ [][InvokeNext]_vars

(***************************************************************************)
(* The directory browser on its own: the keys of the selectingDirectory    *)
(* step, with text typed into the filter.  The file system is a snapshot;  *)
(* the one change to it that is modelled is a directory of the home that   *)
(* was listed when the wizard read the home and has been removed since:    *)
(* descending into it re-lists a path that cannot be read.                 *)
(***************************************************************************)
MaxFilter == 2

\* the characters the user types into the filter
BrowseAlphabet == {"e", "."}

\* a directory that is gone: os.ReadDir fails on it
GonePath == HomeDir \o <<"/", "g">>

BrowseInit == Init

\* the event loop dispatches the key k to Update in the first step
BrowseKeyMsg(k) ==
    /\ ~quit
    /\ m.state = "selectingDirectory"
    /\ LET u == UpdateKey(m, k)
       IN /\ (k \in Runes /\ u.m.filterInput.value = Append(m.filterInput.value, k))
                => k \in BrowseAlphabet /\ Len(u.m.filterInput.value) <= MaxFilter
          /\ m' = u.m
          /\ quit' = (u.cmd = "quit")
    /\ UNCHANGED <<running, inbox, walk>>

\* the descend key ("right", "n") on a highlighted entry of the home whose
\* directory is gone: the case re-lists the entry's path
DescendIntoRemoved ==
    /\ ~quit
    /\ m.state = "selectingDirectory"
    /\ ~m.filtering
    /\ m.currentPath = Dir(GonePath)
    /\ m' = Relist(m, GonePath)
    /\ UNCHANGED <<quit, running, inbox, walk>>

BrowseNext ==
    \/ \E k \in Keys : BrowseKeyMsg(k)
    \/ DescendIntoRemoved

BrowseSpec == BrowseInit /\ [][BrowseNext]_vars

(***************************************************************************)
(* The steps after the directory browser, with text typed into the output  *)
(* name and the label.  In the first step only the keys that leave it or   *)
(* act on the first listing are dispatched.                                *)
(***************************************************************************)
MaxForm == 2

\* the characters the user types into the output name and the label
FormAlphabet == {"."}

\* the keys dispatched in the first step
FormBrowseKeys == {" ", "enter", "ctrl+d", "q"}

FormInit == Init

\* the event loop dispatches the key k to Update
FormKeyMsg(k) ==
    /\ ~quit
    /\ m.state = "selectingDirectory" => k \in FormBrowseKeys
    /\ LET u == UpdateKey(m, k)
       IN /\ Typed(m, u.m, k) => k \in FormAlphabet /\ TypedLoad(u.m) <= MaxForm
          /\ m' = u.m
          /\ quit' = (u.cmd = "quit")
          /\ running' = IF u.cmd = "run" THEN Append(running, u.m) ELSE running
    /\ UNCHANGED <<inbox, walk>>

FormNext ==
    \/ \E k \in Keys : FormKeyMsg(k)
    \/ RunPythonScript
    \/ ProcessCompleteMsg

FormSpec == FormInit /\ [][FormNext]_vars

(***************************************************************************)
(* The output-name step of the variant src/main.go, whose tab key         *)
(* completes or swaps the extension of the name.  The step holds any name  *)
(* the user typed and any export format chosen in the configuration step   *)
(* (esc leads back from there).                                            *)
(***************************************************************************)
ExtCsv == <<".", "c", "s", "v">>

ExtXlsx == <<".", "x", "l", "s", "x">>

\* mutant: an extension is appended and never swapped
toggleExtension_AppendsOnly(current, exportFormat) ==
    IF ~Contains(current, <<".">>)
    THEN current \o (IF exportFormat = "csv" THEN ExtCsv ELSE ExtXlsx)
    ELSE current

\* the value the tab case gives the output input
toggleExtension(current, exportFormat) ==
    IF ~Contains(current, <<".">>)
    THEN current \o (IF exportFormat = "csv" THEN ExtCsv ELSE ExtXlsx)
    ELSE IF HasSuffix(current, ExtCsv) THEN TrimSuffix(current, ExtCsv) \o ExtXlsx
    ELSE IF HasSuffix(current, ExtXlsx) THEN TrimSuffix(current, ExtXlsx) \o ExtCsv
    ELSE current

\* case selectingOutput, "tab"
outputTab(mm) ==
    [mm EXCEPT !.outputInput =
                   SetValue(@, toggleExtension(@.value, mm.exportFormat))]

\* the names in the input: a stem and an ending
ToggleStems == {EmptyStr, <<"a">>, <<"a", "/", "b">>, <<"a", ".", "b">>,
                <<"a", ".", "c", "/", "x">>}

ToggleEndings == {EmptyStr, ExtCsv, ExtXlsx, <<".", "t">>, <<".">>,
                  ExtCsv \o ExtXlsx, <<"c", "s", "v">>, <<".", "C", "S", "V">>}

ToggleNames == {stem \o ending : stem \in ToggleStems, ending \in ToggleEndings}

ToggleModels ==
    {[initialModel EXCEPT !.state = "selectingOutput",
                          !.selectedDir = HomeDir,
                          !.outputInput = SetValue(@, name),
                          !.exportFormat = format] :
         name \in ToggleNames, format \in Formats}

ToggleInit ==
    /\ m \in ToggleModels
    /\ quit = FALSE
    /\ running = << >>
    /\ inbox = << >>
    /\ walk = NoWalk

\* the event loop dispatches the tab key to Update in the output-name step
OutputTab ==
    /\ ~quit
    /\ m.state = "selectingOutput"
    /\ m' = outputTab(m)
    /\ UNCHANGED <<quit, running, inbox, walk>>

ToggleNext == OutputTab

ToggleSpec == ToggleInit /\ [][ToggleNext]_vars

(***************************************************************************)
(* isDirEmpty step by step.  An activation is followed through its calls   *)
(* over a directory tree that may hold regular files and symbolic links    *)
(* leading back to the top of the tree (cycles).  walk.stack holds the     *)
(* activations that wait in their second loop, walk.arg the argument of    *)
(* the call being made, walk.ret the value being returned.                 *)
(***************************************************************************)
MaxWalkDepth == 4

\* the top of the tree and the directories it may hold
WalkTop == <<"/", "t">>

WalkBelow == {Join(WalkTop, <<"a">>), Join(WalkTop, <<"b">>),
              Join(Join(WalkTop, <<"a">>), <<"a">>)}

\* the trees: the directories under the top, each with its parent; the
\* directories that hold a regular file f; those that hold a link l to the top
WalkTrees ==
    {[dirs |-> ds \cup {WalkTop}, files |-> fs, links |-> ls] :
        ds \in {d \in SUBSET WalkBelow :
                   \A q \in d : Dir(q) = WalkTop \/ Dir(q) \in d},
        fs \in SUBSET (WalkBelow \cup {WalkTop}),
        ls \in SUBSET (WalkBelow \cup {WalkTop})}

\* the directory a path leads to: the kernel follows the links in it
WalkResolve(p) ==
    IF \E i \in 1..Len(p) : p[i] = "l"
    THEN LET i == CHOOSE k \in 1..Len(p) :
                      p[k] = "l" /\ \A j \in (k + 1)..Len(p) : p[j] # "l"
         IN WalkTop \o SubSeq(p, i + 1, Len(p))
    ELSE p

\* os.ReadDir on the tree of the walk: the entries sorted by name, each with
\* the type bits of the entry itself
WalkReadDir(w, p) ==
    LET d == WalkResolve(p)
        sub(n) == IF Join(d, n) \in w.dirs
                  THEN << [name |-> n, type |-> "dir"] >> ELSE << >>
    IN IF d \notin w.dirs THEN [ok |-> FALSE, entries |-> << >>]
       ELSE [ok |-> TRUE,
             entries |-> sub(<<"a">>) \o sub(<<"b">>)
                 \o (IF d \in w.files
                     THEN << [name |-> <<"f">>, type |-> "file"] >> ELSE << >>)
                 \o (IF d \in w.links
                     THEN << [name |-> <<"l">>, type |-> "link"] >> ELSE << >>)]

\* mutant: a link to a directory counts as a directory
entryIsDir_FollowsLinks(entry) == entry.type \in {"dir", "link"}

\* os.DirEntry.IsDir: a symbolic link is not a directory
entryIsDir(entry) == entry.type = "dir"

WalkInit ==
    /\ m = initialModel
    /\ quit = FALSE
    /\ running = << >>
    /\ inbox = << >>
    /\ \E t \in WalkTrees :
           walk = [dirs |-> t.dirs, files |-> t.files, links |-> t.links,
                   arg |-> WalkTop, stack |-> << >>, ret |-> "none", pc |-> "call"]

\* isDirEmpty(walk.arg) is entered: os.ReadDir and the first loop
isDirEmptyCall ==
    /\ walk.pc = "call"
    /\ LET r == WalkReadDir(walk, walk.arg)
       IN IF ~r.ok
          THEN walk' = [walk EXCEPT !.ret = "true", !.pc = "return"]
          ELSE IF \E i \in 1..Len(r.entries) : ~entryIsDir(r.entries[i])
          THEN walk' = [walk EXCEPT !.ret = "false", !.pc = "return"]
          ELSE /\ Len(walk.stack) < MaxWalkDepth
               /\ walk' = [walk EXCEPT
                     !.stack = Append(@, [path |-> walk.arg,
                                          rest |-> [i \in 1..Len(r.entries) |->
                                                       r.entries[i].name]]),
                     !.pc = "loop"]
    /\ UNCHANGED <<m, quit, running, inbox>>

\* the second loop of the activation on top: the next subdirectory is
\* called, or the loop is over and the activation returns true
isDirEmptyLoop ==
    /\ walk.pc = "loop"
    /\ LET top == walk.stack[Len(walk.stack)]
       IN IF top.rest = << >>
          THEN walk' = [walk EXCEPT
                          !.stack = SubSeq(@, 1, Len(@) - 1),
                          !.ret = "true",
                          !.pc = "return"]
          ELSE walk' = [walk EXCEPT
                          !.stack[Len(walk.stack)].rest = Tail(top.rest),
                          !.arg = Join(top.path, Head(top.rest)),
                          !.pc = "call"]
    /\ UNCHANGED <<m, quit, running, inbox>>

\* a value is returned: to the caller of the walk, or into the second loop
\* of the activation on top, which returns false in its turn or goes on
isDirEmptyReturn ==
    /\ walk.pc = "return"
    /\ walk' = IF walk.stack = << >> THEN [walk EXCEPT !.pc = "done"]
               ELSE IF walk.ret = "false"
               THEN [walk EXCEPT !.stack = SubSeq(@, 1, Len(@) - 1)]
               ELSE [walk EXCEPT !.ret = "none", !.pc = "loop"]
    /\ UNCHANGED <<m, quit, running, inbox>>

WalkNext == isDirEmptyCall \/ isDirEmptyLoop \/ isDirEmptyReturn

\* the Go runtime keeps running the goroutine that is in isDirEmpty
WalkSpec == WalkInit /\ [][WalkNext]_vars /\ WF_vars(WalkNext)

(***************************************************************************)
(* Properties                                                              *)
(***************************************************************************)
QuitKeys == {"ctrl+c", "q"}

BackKeys == {"b", "backspace", "esc"}

\* the fields the wizard accumulates
Accumulated(mm) ==
    <<mm.selectedDir, mm.outputPath, mm.outputInput.value, mm.litigantName,
      mm.litigantInput.value, mm.exportFormat, mm.debugMode, mm.advancedMode,
      mm.currentPath, mm.filterInput.value, mm.filtering>>

\* the configuration a run of the companion is started with
Config(mm) ==
    <<mm.selectedDir, mm.outputPath, mm.litigantName, mm.exportFormat,
      mm.debugMode, mm.advancedMode>>

\* the state of a freshly started wizard
Fresh(mm) ==
    /\ mm.state = "selectingDirectory"
    /\ mm.currentPath = getDownloadsDirectory
    /\ mm.directoryList = listNew(getDirectoryItems(getDownloadsDirectory))
    /\ mm.selectedDir = EmptyStr
    /\ mm.outputPath = EmptyStr
    /\ mm.outputInput.value = EmptyStr
    /\ mm.litigantName = EmptyStr
    /\ mm.litigantInput.value = EmptyStr
    /\ mm.exportFormat = "excel"
    /\ ~mm.debugMode
    /\ ~mm.advancedMode
    /\ ~mm.filtering
    /\ mm.filterInput.value = EmptyStr
    /\ mm.result = EmptyStr
    /\ mm.error = EmptyStr

C1_KeysIgnored ==
    m.state = "processing" =>
        \A k \in Keys \ QuitKeys :
            LET u == UpdateKey(m, k)
            IN /\ u.m.state = "processing"
               /\ Accumulated(u.m) = Accumulated(m)
               /\ u.cmd = "nil"

\* C1: while step = Processing no key other than quit changes the step or an
\* accumulated field (reset and the advanced-mode key are ignored), and a
\* step that leaves Processing is the dispatch of the completion event.
C1_ProcessingIgnoresKeys ==
    /\ [](C1_KeysIgnored)
    /\ [][ (m.state = "processing" /\ m'.state # "processing")
              => ProcessCompleteMsg ]_vars

\* a key (the language toggle) was handled during Processing and the wizard
\* is still in Processing with the fields of the launch
C1_Witness ==
    /\ m.state = "processing"
    /\ ~quit
    /\ running # << >>
    /\ Head(running).isSpanish # m.isSpanish
    /\ Accumulated(Head(running)) = Accumulated(m)

\* C2: a finished command posts exactly one completion event; an event is
\* pending or running only while step = Processing, and its dispatch moves
\* the wizard from Processing to Finished.
C2_CompletionInProcessing ==
    /\ []((running # << >> \/ inbox # << >>) => m.state = "processing")
    /\ [][ /\ Len(running') < Len(running) =>
                  Len(running') = Len(running) - 1 /\ Len(inbox') = Len(inbox) + 1
           /\ Len(inbox') > Len(inbox) => Len(running') = Len(running) - 1
           /\ Len(inbox') < Len(inbox) =>
                  /\ Len(inbox') = Len(inbox) - 1
                  /\ m.state = "processing"
                  /\ m'.state = "finished" ]_vars

\* the completion event of a run has been dispatched
C2_Witness ==
    /\ m.state = "finished"
    /\ ~quit
    /\ running = << >>
    /\ inbox = << >>
    /\ m.result # EmptyStr

C3_ConfirmLaunches ==
    /\ m.state = "configuring" =>
           LET u == UpdateKey(m, "enter")
           IN u.m.state = "processing" /\ u.cmd = "run"
    /\ Len(running) + Len(inbox) <= 1

\* C3: Enter in ReviewingConfig moves to Processing and launches one run of
\* the companion; Processing is entered in no other way; at most one run is
\* outstanding (running, or with its completion event not yet dispatched).
C3_OneOutstandingRun ==
    /\ [](C3_ConfirmLaunches)
    /\ [][ /\ (m.state # "processing" /\ m'.state = "processing") =>
                  /\ m.state = "configuring"
                  /\ KeyMsg("enter")
                  /\ running' = Append(running, m')
           /\ Len(running') > Len(running) =>
                  m.state = "configuring" /\ m'.state = "processing" ]_vars

\* a run is outstanding, launched with the configuration under review
C3_Witness ==
    /\ m.state = "processing"
    /\ ~quit
    /\ Len(running) = 1
    /\ inbox = << >>
    /\ Config(Head(running)) = Config(m)

\* C4: lastResult and lastError are never both non-empty, and either is
\* non-empty only while step = Finished.
C4_ResultErrorExclusive ==
    /\ ~(m.result # EmptyStr /\ m.error # EmptyStr)
    /\ (m.result # EmptyStr \/ m.error # EmptyStr) => m.state = "finished"

\* a failed run shown in Finished
C4_Witness ==
    /\ m.state = "finished"
    /\ m.error # EmptyStr
    /\ m.result = EmptyStr
    /\ m.exportFormat = "both"

\* C5 as stated: in every wizard step the reset key returns the wizard to
\* BrowsingDirectory with a fresh state.
C5_ResetInEveryStep == Fresh(UpdateKey(m, "r").m)

\* C5 as amended: in every wizard step other than Processing the reset key
\* returns the wizard to BrowsingDirectory with a fresh state; in Processing
\* the reset key changes nothing.
C5_ResetOutsideProcessing ==
    LET u == UpdateKey(m, "r")
    IN /\ u.cmd = "nil"
       /\ m.state # "processing" => Fresh(u.m)
       /\ m.state = "processing" => u.m = m

\* a failed run with a non-default configuration, where reset starts afresh
C5_Witness ==
    /\ m.state = "finished"
    /\ ~quit
    /\ m.error # EmptyStr
    /\ m.exportFormat = "csv"
    /\ m.debugMode
    /\ Fresh(UpdateKey(m, "r").m)

\* C6: ctrl+c and q end the program from every wizard step and sub-mode, and
\* the keys are dispatched whether or not a run of the companion is under way.
C6_QuitEverywhere ==
    ~quit => \A k \in QuitKeys :
                 /\ UpdateKey(m, k).cmd = "quit"
                 /\ ENABLED (KeyMsg(k) /\ quit')

\* the program has ended in Processing with the companion still running
C6_Witness ==
    /\ quit
    /\ m.state = "processing"
    /\ running # << >>
    /\ inbox = << >>

\* every field of the model but the language flag
AllButLanguage(mm) == [mm EXCEPT !.isSpanish = TRUE]

\* C7: ctrl+e, in every wizard step and sub-mode, flips the language flag
\* and changes no other field; no text input receives the key.
C7_LanguageToggleFrame ==
    LET u == UpdateKey(m, "ctrl+e")
    IN /\ u.cmd = "nil"
       /\ u.m.isSpanish = ~m.isSpanish
       /\ AllButLanguage(u.m) = AllButLanguage(m)
       /\ ~quit => ENABLED (KeyMsg("ctrl+e") /\ UNCHANGED <<quit, running, inbox>>)

\* the language was toggled and the wizard is in filter sub-mode with a
\* filter text and the cursor off the first entry
C7_Witness ==
    /\ ~m.isSpanish
    /\ m.state = "selectingDirectory"
    /\ m.filtering
    /\ m.filterInput.value # EmptyStr
    /\ m.directoryList.index > 0

\* C8: back in ReviewingConfig returns to the label step, which immediately
\* precedes it, and back in the label step returns to NamingOutput; no other
\* field changes.
C8_BackToPrecedingStep ==
    /\ m.state = "configuring" =>
           \A k \in BackKeys :
               UpdateKey(m, k).m = [m EXCEPT !.state = "selectingLitigant"]
    /\ m.state = "selectingLitigant" =>
           \A k \in BackKeys :
               UpdateKey(m, k).m = [m EXCEPT !.state = "selectingOutput"]

C9_FinishedKeys ==
    m.state = "finished" =>
        /\ \A k \in {"b", "backspace"} :
               LET u == UpdateKey(m, k)
               IN /\ u.cmd = "nil"
                  /\ u.m.state = "configuring"
                  /\ Config(u.m) = Config(m)
                  /\ u.m.result = EmptyStr
                  /\ u.m.error = EmptyStr
        /\ Fresh(UpdateKey(m, "r").m)
        /\ \A k \in Keys \ {"b", "backspace", "r"} :
               LET u == UpdateKey(m, k)
               IN /\ AllButLanguage(u.m) = AllButLanguage(m)
                  /\ u.cmd \in {"nil", "quit"}

\* C9: from Finished, back returns to ReviewingConfig with the configuration
\* the run was started with and with lastResult and lastError cleared; reset
\* returns to a fresh BrowsingDirectory; no other key leaves Finished except
\* by quitting.
C9_FinishedTransitions ==
    /\ [](C9_FinishedKeys)
    /\ [][ (m.state \in {"configuring", "processing", "finished"}
            /\ m'.state \in {"processing", "finished"})
              => Config(m') = Config(m) ]_vars

\* a failed run with a non-default configuration, from where back re-opens
\* the review
C9_Witness ==
    /\ m.state = "finished"
    /\ ~quit
    /\ m.error # EmptyStr
    /\ m.advancedMode
    /\ m.exportFormat = "both"
    /\ UpdateKey(m, "b").m.state = "configuring"

FormatAfter == [excel |-> "csv", csv |-> "both", both |-> "excel"]

\* C11: in ReviewingConfig the format key moves exportFormat along
\* excel -> csv -> both -> excel and the debug key flips debugEnabled when
\* advancedMode is on; with advancedMode off neither key changes anything;
\* exportFormat is always one of excel, csv, both.
C11_FormatAndDebugKeys ==
    /\ m.exportFormat \in Formats
    /\ m.state = "configuring" =>
           /\ UpdateKey(m, "4").m =
                  [m EXCEPT !.exportFormat =
                                IF m.advancedMode THEN FormatAfter[@] ELSE @]
           /\ UpdateKey(m, "d").m =
                  [m EXCEPT !.debugMode = IF m.advancedMode THEN ~@ ELSE @]

\* the review step in advanced mode, the format two steps along the cycle
\* and debug switched on
C11_Witness ==
    /\ m.state = "configuring"
    /\ ~quit
    /\ m.advancedMode
    /\ m.exportFormat = "both"
    /\ m.debugMode
    /\ UpdateKey(m, "4").m.exportFormat = "excel"

\* the run ends in one of the three failures
Failure(env) ==
    \/ findPythonScript(env) = EmptyStr
    \/ env.launch # "ok"
    \/ env.exit # 0

C12_FailureReported ==
    running # << >> =>
        \A env \in Envs :
            Failure(env) => runPythonScript(Head(running), env).error # EmptyStr

\* C12: every failure of a run ends in Finished with a non-empty lastError
\* and the program still running; lastError and the step then change only
\* by reset or back (quit ends the program and changes neither).
C12_FailuresRetained ==
    /\ [](C12_FailureReported)
    /\ [][ /\ (Len(inbox') < Len(inbox) /\ Head(inbox).error # EmptyStr) =>
                  /\ m'.state = "finished"
                  /\ m'.error = Head(inbox).error
                  /\ ~quit'
           /\ Len(running') < Len(running) => ~quit'
           /\ (m.state = "finished" /\ m.error # EmptyStr
               /\ (m'.error # m.error \/ m'.state # "finished")) =>
                  \E k \in {"r", "b", "backspace"} : KeyMsg(k) ]_vars

\* the companion script was not found; the error is shown and a key that is
\* neither reset, back nor quit leaves it there
C12_Witness ==
    /\ m.state = "finished"
    /\ ~quit
    /\ m.error = NotFoundError
    /\ UpdateKey(m, "ctrl+d").m.error = m.error
    /\ UpdateKey(m, "ctrl+d").m.state = "finished"

\* the run was started and exited with a non-zero code
ExitFailure(env) ==
    /\ findPythonScript(env) # EmptyStr
    /\ env.launch = "ok"
    /\ env.exit # 0

C13_ExitErrorMessage ==
    running # << >> =>
        \A env \in Envs :
            ExitFailure(env) =>
                LET msg == runPythonScript(Head(running), env)
                IN /\ msg.result = EmptyStr
                   /\ HasSuffix(msg.error, <<"Output:">> \o env.output)

\* C13: after a non-zero exit with captured output X, Finished has
\* lastError holding X verbatim and lastResult empty.
C13_ExitErrorVerbatim ==
    /\ [](C13_ExitErrorMessage)
    /\ [][ (Len(inbox') < Len(inbox) /\ Head(inbox).error # EmptyStr) =>
               /\ m'.state = "finished"
               /\ m'.error = Head(inbox).error
               /\ m'.result = EmptyStr ]_vars

\* exit code 1 with output "permission denied", shown in Finished
C13_Witness ==
    /\ m.state = "finished"
    /\ Contains(m.error, ExitErrText)
    /\ HasSuffix(m.error, OutDenied)
    /\ m.result = EmptyStr

\* the interpreter was to be started and the start failed
LaunchFailure(env) == findPythonScript(env) # EmptyStr /\ env.launch # "ok"

\* C14 as stated: the guidance text is in the error exactly when the
\* interpreter could not be launched; a non-zero exit is reported without it.
C14_GuidanceIffLaunchFailed ==
    running # << >> =>
        \A env \in Envs :
            findPythonScript(env) # EmptyStr /\ Failure(env) =>
                (Contains(runPythonScript(Head(running), env).error, Guidance)
                     <=> LaunchFailure(env))

\* C14 as amended: the guidance text is in the error exactly when the start
\* of the interpreter failed because its executable was not found; every
\* other failed start and every non-zero exit is reported without it, with
\* the text of the error and the captured output.
C14_GuidanceIffNotFound ==
    running # << >> =>
        \A env \in Envs :
            findPythonScript(env) # EmptyStr /\ Failure(env) =>
                LET msg == runPythonScript(Head(running), env)
                IN /\ Contains(msg.error, Guidance) <=> env.launch = "notfound"
                   /\ Contains(msg.error, ErrText(env))
                   /\ HasSuffix(msg.error, <<"Output:">> \o
                          (IF env.launch = "ok" THEN env.output ELSE EmptyStr))

\* the start of the interpreter was refused: reported in Finished without
\* the guidance
C14_Witness ==
    /\ m.state = "finished"
    /\ Contains(m.error, DeniedErrText)
    /\ ~Contains(m.error, Guidance)
    /\ m.result = EmptyStr

\* the run was started and exited with code 0
ExitZero(env) ==
    /\ findPythonScript(env) # EmptyStr
    /\ env.launch = "ok"
    /\ env.exit = 0

\* the output has no line with both count markers
NoCountMarkers(output) ==
    LET lines == SplitOn(output, "\n")
    IN \A i \in 1..Len(lines) :
           ~(WordHas(lines[i], "processed") /\ WordHas(lines[i], "file"))

\* C15: with exit code 0 the message is a success for every captured
\* output; without the count markers the summary holds the generic count,
\* without the path marker it holds the computed output path.
C15_ExitZeroIsSuccess ==
    running # << >> =>
        \A env \in Envs :
            ExitZero(env) =>
                LET mm == Head(running)
                    msg == runPythonScript(mm, env)
                IN /\ msg.error = EmptyStr
                   /\ msg.result # EmptyStr
                   /\ NoCountMarkers(env.output) =>
                          Contains(msg.result,
                                   <<"Files processed: ", "multiple", "Saved to: ">>)
                   /\ ~Contains(env.output, SavedTo) =>
                          Contains(msg.result,
                                   <<"Saved to: ">> \o fullOutputPath(mm)
                                   \o <<"Your file index is ready to use!">>)

\* a run whose output held the path marker and no path ended as a success
C15_Witness ==
    /\ m.state = "finished"
    /\ m.error = EmptyStr
    /\ Contains(m.result, <<"Files processed: ", "multiple", "Saved to: ",
                            "Your file index is ready to use!">>)

\* the flag of each export format
FormatFlag == [excel |-> << >>, csv |-> << <<"--csv-only">> >>,
               both |-> << <<"--csv">> >>]

\* C16: the arguments are the script path, --directory and the selected
\* directory, --output and the full output path, the flag of the export
\* format, --debug if debug is enabled, --litigant and the label if the
\* label is not empty, in this order.
C16_ArgumentList ==
    running # << >> =>
        LET mm == Head(running)
        IN \A i \in 1..3 :
               commandArgs(mm, searchPaths[i]) =
                   <<searchPaths[i]>>
                   \o << <<"--directory">>, mm.selectedDir >>
                   \o << <<"--output">>, fullOutputPath(mm) >>
                   \o FormatFlag[mm.exportFormat]
                   \o (IF mm.debugMode THEN << <<"--debug">> >> ELSE << >>)
                   \o (IF mm.litigantName = EmptyStr THEN << >>
                       ELSE << <<"--litigant">>, mm.litigantName >>)

\* a run with a format flag, the debug flag and a label
C16_Witness ==
    /\ running # << >>
    /\ Head(running).exportFormat = "both"
    /\ Head(running).debugMode
    /\ Head(running).litigantName # EmptyStr
    /\ Len(commandArgs(Head(running), searchPaths[1])) = 9

\* filepath.Ext(name) # "": the last element of the name holds a dot
HasExtension(name) ==
    \E i \in 1..Len(name) :
        name[i] = "." /\ \A j \in (i + 1)..Len(name) : name[j] # "/"

DefaultExtension(format) ==
    IF format = "csv" THEN <<".", "c", "s", "v">> ELSE <<".", "x", "l", "s", "x">>

\* C17: the output path is join(selectedDirectory, name'), where name' is
\* outputName if it has an extension and otherwise outputName followed by
\* the default extension of the export format.
C17_OutputPath ==
    running # << >> =>
        LET mm == Head(running)
        IN fullOutputPath(mm) =
               Join(mm.selectedDir,
                    IF HasExtension(mm.outputPath) THEN mm.outputPath
                    ELSE mm.outputPath \o DefaultExtension(mm.exportFormat))

\* the first of the three candidates that exists, "" if none does
FirstCandidate(present) ==
    IF present = {} THEN EmptyStr
    ELSE searchPaths[CHOOSE i \in present : \A j \in present : i <= j]

\* C18: the companion is the first existing candidate in the order program
\* directory, working directory, one level up; the companion-not-found error
\* is reported if and only if none of the three exists.
C18_FirstExistingCandidate ==
    running # << >> =>
        \A env \in Envs :
            /\ findPythonScript(env) = FirstCandidate(env.present)
            /\ runPythonScript(Head(running), env).error = NotFoundError
                   <=> env.present = {}

\* the entries of the current directory whose name holds the text, in the
\* order of the entries, case-insensitively
Matching(entries, text) ==
    SelectSeq(entries, LAMBDA d : Contains(ToLower(d.name), ToLower(text)))

\* C19: in BrowsingDirectory the displayed collection is the entries of the
\* current directory if filterText is empty, and otherwise the entries whose
\* name contains filterText.
C19_DisplayedIsFiltered ==
    m.state = "selectingDirectory" =>
        m.directoryList.items =
            IF m.filterInput.value = EmptyStr
            THEN getDirectoryItems(m.currentPath)
            ELSE Matching(getDirectoryItems(m.currentPath), m.filterInput.value)

\* the names of the items other than the parent entry
ItemNames(items) ==
    LET own == SelectSeq(items, LAMBDA d : d.name # <<".", ".">>)
    IN [i \in 1..Len(own) |-> own[i].name]

\* C20: in filter sub-mode over [Invoices, report.pdf, Reports], typing
\* "r", "e", "p" leaves [report.pdf, Reports] displayed, with cursor 0.
C20_TypingRep ==
    (/\ m.state = "selectingDirectory"
     /\ m.filtering
     /\ m.filterInput.value = EmptyStr
     /\ ItemNames(m.directoryList.items) = <<Invoices, ReportPdf, Reports>>) =>
        LET r == UpdateKey(m, "r").m
            re == UpdateKey(r, "e").m
            rep == UpdateKey(re, "p").m
        IN /\ rep.state = "selectingDirectory"
           /\ rep.filterInput.value = <<"r", "e", "p">>
           /\ ItemNames(rep.directoryList.items) = <<ReportPdf, Reports>>
           /\ Len(rep.directoryList.items) = 2
           /\ rep.directoryList.index = 0

\* the collection the list shows
Displayed(mm) == mm.directoryList.items

\* the wizard is in the filter sub-mode of the first step
FilterMode(mm) == mm.state = "selectingDirectory" /\ mm.filtering

\* the wizard is in the first step, outside the filter sub-mode
NavigationMode(mm) == mm.state = "selectingDirectory" /\ ~mm.filtering

\* C21: filter round trip.  With a filter applied, clearing it (cancel, or
\* editing the filter text back to empty) displays the listing of the
\* current directory again, every entry in its original order.
C21_FilterRoundTrip ==
    FilterMode(m) =>
        LET original == getDirectoryItems(m.currentPath)
            cancelled == UpdateKey(m, "esc").m
            erased == UpdateKey(m, "ctrl+u").m
            shortened == UpdateKey(m, "backspace").m
        IN /\ m.allDirectories = original
           /\ Displayed(cancelled) = original
           /\ erased.filterInput.value = EmptyStr
           /\ Displayed(erased) = original
           /\ shortened.filterInput.value = EmptyStr
                  => Displayed(shortened) = original

\* a filter that hides entries is applied, and clearing it brings them back
C21_Witness ==
    /\ FilterMode(m)
    /\ m.filterInput.value # EmptyStr
    /\ Len(Displayed(m)) < Len(getDirectoryItems(m.currentPath))
    /\ Displayed(UpdateKey(m, "ctrl+u").m) # Displayed(m)

\* C22: leaving the filter sub-mode.  Cancel displays the full listing of
\* currentPath, clears filterText and puts the cursor on 0; confirm changes
\* nothing but the mode (and the focus of the filter input); neither changes
\* currentPath or the step.
C22_FilterExit ==
    FilterMode(m) =>
        LET cancelled == UpdateKey(m, "esc").m
            confirmed == UpdateKey(m, "enter").m
        IN /\ NavigationMode(cancelled)
           /\ Displayed(cancelled) = getDirectoryItems(m.currentPath)
           /\ cancelled.filterInput.value = EmptyStr
           /\ cancelled.directoryList.index = 0
           /\ cancelled.currentPath = m.currentPath
           /\ NavigationMode(confirmed)
           /\ confirmed = [m EXCEPT !.filtering = FALSE,
                                    !.filterInput = Blur(@)]
           /\ Displayed(confirmed) = Displayed(m)
           /\ confirmed.currentPath = m.currentPath

\* a filtered view with text, for which cancel and confirm differ
C22_Witness ==
    /\ FilterMode(m)
    /\ m.filterInput.value # EmptyStr
    /\ Displayed(m) # getDirectoryItems(m.currentPath)
    /\ Displayed(UpdateKey(m, "esc").m) # Displayed(UpdateKey(m, "enter").m)

\* C23: in filter sub-mode the auto-complete key sets filterText to the name
\* of the first displayed entry and changes nothing else, and changes
\* nothing at all when the displayed collection is empty.
C23_AutoCompleteFirstDisplayed ==
    FilterMode(m) =>
        UpdateKey(m, "tab").m =
            IF Displayed(m) = << >> THEN m
            ELSE [m EXCEPT !.filterInput = SetValue(@, Displayed(m)[1].name)]

\* C24: in BrowsingDirectory the cursor index is within the displayed
\* collection, or the collection is empty and no entry is highlighted, so
\* that confirm-select and descend do nothing; outside the filter sub-mode
\* cursor up and cursor down move by one and stop at the ends.
C24_CursorInRange ==
    m.state = "selectingDirectory" =>
        LET index == m.directoryList.index
            length == Len(Displayed(m))
        IN /\ \/ index \in 0..(length - 1)
              \/ /\ length = 0
                 /\ ~SelectedItem(m.directoryList).ok
                 /\ NavigationMode(m) =>
                        /\ UpdateKey(m, "enter").m = m
                        /\ UpdateKey(m, "right").m = m
           /\ NavigationMode(m) =>
                 /\ UpdateKey(m, "up").m =
                        [m EXCEPT !.directoryList.index =
                                      IF index = 0 THEN 0 ELSE index - 1]
                 /\ UpdateKey(m, "down").m =
                        [m EXCEPT !.directoryList.index =
                                      IF index + 1 >= length THEN index
                                      ELSE index + 1]

\* a directory with entries of which the confirmed filter shows none
C24_Witness ==
    /\ NavigationMode(m)
    /\ Displayed(m) = << >>
    /\ getDirectoryItems(m.currentPath) # << >>

\* the keys the filter sub-mode hands to the filter input
FilterKeystrokes == Keys \ {"ctrl+c", "q", "esc", "enter", "tab", "ctrl+e", "r"}

\* C25: the cursor index is 0 after every operation that replaces the
\* displayed collection: descend, ascend (parent entry or ascend key), every
\* filter keystroke and filter cancel.
C25_CursorReset ==
    /\ NavigationMode(m) =>
          \A k \in {"enter", "left", "right"} :
              LET n == UpdateKey(m, k).m
              IN (n.state = "selectingDirectory" /\ n.currentPath # m.currentPath)
                     => /\ Displayed(n) = getDirectoryItems(n.currentPath)
                        /\ n.directoryList.index = 0
    /\ FilterMode(m) =>
          \A k \in FilterKeystrokes \cup {"esc"} :
              LET n == UpdateKey(m, k).m
              IN /\ n.directoryList.index = 0
                 /\ k # "esc" =>
                        Displayed(n) =
                            filterDirectories(m.allDirectories, n.filterInput.value)

\* the cursor is below the first entry, on a directory to descend into
C25_Witness ==
    /\ NavigationMode(m)
    /\ m.directoryList.index > 0
    /\ UpdateKey(m, "right").m.currentPath # m.currentPath

\* C26 as stated: in every BrowsingDirectory state the select-current key
\* moves to NamingOutput with selectedDirectory = currentPath.
C26_SelectCurrentAlways ==
    m.state = "selectingDirectory" =>
        LET n == UpdateKey(m, " ").m
        IN n.state = "selectingOutput" /\ n.selectedDir = m.currentPath

\* C26: outside the filter sub-mode the select-current key moves to
\* NamingOutput with selectedDirectory = currentPath, whatever is displayed;
\* in the filter sub-mode the key is typed into the filter and the current
\* directory is selected by the key once the sub-mode is left (confirm or
\* cancel).
C26_SelectCurrentOutsideFilter ==
    LET n == UpdateKey(m, " ").m
    IN /\ NavigationMode(m) =>
              /\ n.state = "selectingOutput"
              /\ n.selectedDir = m.currentPath
              /\ n.currentPath = m.currentPath
       /\ FilterMode(m) =>
              /\ FilterMode(n)
              /\ n.selectedDir = m.selectedDir
              /\ n.filterInput.value = Append(m.filterInput.value, " ")
              /\ \A k \in {"enter", "esc"} :
                     LET o == UpdateKey(UpdateKey(m, k).m, " ").m
                     IN o.state = "selectingOutput" /\ o.selectedDir = m.currentPath

\* nothing is displayed because the confirmed filter matches nothing, and the
\* key selects the current directory
C26_Witness ==
    /\ NavigationMode(m)
    /\ m.filterInput.value # EmptyStr
    /\ Displayed(m) = << >>
    /\ UpdateKey(m, " ").m.selectedDir = m.currentPath
    /\ m.selectedDir # m.currentPath

\* C27: outside the filter sub-mode, where the ascend key is bound: at the
\* filesystem root the key changes nothing and yields no command or error;
\* elsewhere it sets currentPath to the parent, re-lists it and stays in
\* BrowsingDirectory.
C27_Ascend ==
    NavigationMode(m) =>
        LET u == UpdateKey(m, "left")
            parent == Dir(m.currentPath)
        IN IF m.currentPath = RootPath
           THEN u.m = m /\ u.cmd = "nil"
           ELSE /\ parent # m.currentPath
                /\ u.m = [m EXCEPT
                            !.currentPath = parent,
                            !.directoryList =
                                [items |-> getDirectoryItems(parent), index |-> 0],
                            !.allDirectories = getDirectoryItems(parent)]
                /\ u.m.state = "selectingDirectory"
                /\ u.cmd = "nil"

\* the wizard stands at the filesystem root
C27_Witness ==
    /\ NavigationMode(m)
    /\ m.currentPath = RootPath
    /\ Displayed(m) # << >>

\* the names of the child directories of p, as the file system has them
ChildDirNames(p) ==
    IF p \in FSDirs
    THEN {FSChildren(p)[i].name : i \in {j \in 1..Len(FSChildren(p)) : FSChildren(p)[j].isDir}}
    ELSE {}

\* the name starts with the hidden-file marker
Hidden(name) == name # EmptyStr /\ name[1] = "."

\* a regular file lies in the directory d or in a directory below it
HoldsFile(d) ==
    \E q \in FSDirs :
        /\ q = d \/ HasPrefix(q, d \o <<"/">>)
        /\ \E i \in 1..Len(FSChildren(q)) : ~FSChildren(q)[i].isDir

\* the children the directory-only listing shows: directories that are not
\* hidden, have a displayable name and hold a file somewhere
VisibleChildren(p) ==
    {n \in ChildDirNames(p) : ~Hidden(n) /\ ~IsBlank(n) /\ HoldsFile(Join(p, n))}

\* the number of parent entries in a listing
Sentinels(items) == Len(SelectSeq(items, LAMBDA d : d.name = <<".", ".">>))

ParentOnly(p) == << directoryItem(<<".", ".">>, Dir(p), TRUE, 0) >>

\* C29 as stated: listing a directory that cannot be read returns an empty
\* sequence, and the wizard stays in BrowsingDirectory without an error.
C29_UnreadableListsNothing ==
    (m.state = "selectingDirectory" /\ ~ReadDir(m.currentPath).ok) =>
        /\ getDirectoryItems(m.currentPath) = << >>
        /\ m.allDirectories = << >>
        /\ m.error = EmptyStr

\* C29: listing a directory that cannot be read returns no child entry: the
\* parent sentinel alone, or nothing at the root; descending into such a
\* directory leaves the wizard in BrowsingDirectory without an error.
C29_UnreadableListsParentOnly ==
    /\ []((m.state = "selectingDirectory" /\ ~ReadDir(m.currentPath).ok) =>
             /\ getDirectoryItems(m.currentPath) =
                    IF m.currentPath = RootPath THEN << >>
                    ELSE ParentOnly(m.currentPath)
             /\ ItemNames(getDirectoryItems(m.currentPath)) = << >>
             /\ m.allDirectories = getDirectoryItems(m.currentPath)
             /\ m.error = EmptyStr)
    /\ [][DescendIntoRemoved =>
              /\ m'.state = "selectingDirectory"
              /\ m'.currentPath = GonePath
              /\ Displayed(m') = ParentOnly(GonePath)
              /\ m'.error = EmptyStr]_vars

\* the wizard stands in the removed directory
C29_Witness ==
    /\ m.state = "selectingDirectory"
    /\ m.currentPath = GonePath
    /\ ~ReadDir(m.currentPath).ok
    /\ Displayed(m) = ParentOnly(GonePath)

\* the parent sentinel is first and the other entries are ordered by
\* modification time, most recent first, each with the time of its directory
SentinelFirstThenByTime(p, items) ==
    /\ \A i \in 1..Len(items) : items[i].name = <<".", ".">> => i = 1
    /\ \A i, j \in 1..Len(items) :
           (i < j /\ items[i].name # <<".", ".">>) =>
               items[i].modTime >= items[j].modTime
    /\ \A i \in 1..Len(items) :
           items[i].name # <<".", ".">> =>
               \E c \in 1..Len(FSChildren(p)) :
                   /\ FSChildren(p)[c].name = items[i].name
                   /\ FSChildren(p)[c].modTime = items[i].modTime

\* the names a listing shows
Listed(items) == {items[i].name : i \in 1..Len(items)}

C34_FilterOnlyWhileBrowsing ==
    /\ m.filtering => m.state = "selectingDirectory"
    /\ m.filterInput.focus => m.filtering
    /\ m.filtering =>
           \A k \in Keys : UpdateKey(m, k).m.state = "selectingDirectory"
    /\ m.state = "configuring" =>
           LET n == UpdateKey(m, "1").m
           IN n.state = "selectingDirectory" /\ ~n.filtering /\ ~n.filterInput.focus

\* the sub-mode is active in the first step re-opened from ReviewingConfig
C34_Witness ==
    /\ m.filtering
    /\ m.state = "selectingDirectory"
    /\ m.outputPath # EmptyStr
    /\ m.selectedDir # EmptyStr

\* the steps that follow the text-entry steps
AfterEntry == {"configuring", "processing", "finished"}

\* the directory, the name and the label are recorded as the inputs hold them
Recorded(mm) ==
    /\ mm.selectedDir # EmptyStr
    /\ mm.outputPath # EmptyStr
    /\ mm.outputPath = mm.outputInput.value
    /\ mm.litigantName = mm.litigantInput.value

\* C35: in ReviewingConfig, Processing and Finished selectedDirectory and
\* outputName are non-empty, outputName is the content of the output-name
\* input and the label is the content of the label input; every run is
\* launched with such a model.
C35_RecordedFields ==
    /\ m.state \in AfterEntry => Recorded(m)
    /\ \A i \in 1..Len(running) : Recorded(running[i])

\* ReviewingConfig is reached again after the name and the label were edited
C35_Witness ==
    /\ m.state = "configuring"
    /\ m.outputPath # IndexName
    /\ m.litigantName # EmptyStr
    /\ m.advancedMode

\* only advancedMode differs
AdvancedToggled(mm) == [mm EXCEPT !.advancedMode = ~@]

C37_DefaultsUnlessAdvanced ==
    /\ ~m.advancedMode => m.exportFormat = "excel" /\ ~m.debugMode
    /\ \A i \in 1..Len(running) :
           ~running[i].advancedMode =>
               running[i].exportFormat = "excel" /\ ~running[i].debugMode

\* the keys of printable characters
Printable == Runes

\* the text field of the context the wizard is in
TextOf(mm) ==
    IF mm.state = "selectingOutput" THEN mm.outputInput.value
    ELSE IF mm.state = "selectingLitigant" THEN mm.litigantInput.value
    ELSE mm.filterInput.value

\* the wizard is in a text-entry context
TextEntry(mm) ==
    FilterMode(mm) \/ mm.state \in {"selectingOutput", "selectingLitigant"}

\* C38: in the text-entry contexts a printable character key appends the
\* character to the text field of the context; it does not change the step,
\* reset the wizard or quit.
C38_PrintableKeysEdit ==
    TextEntry(m) =>
        \A k \in Printable :
            LET u == UpdateKey(m, k)
            IN /\ u.cmd # "quit"
               /\ u.m.state = m.state
               /\ TextOf(u.m) = Append(TextOf(m), k)

\* C39: every confirm-select of BrowsingDirectory sets the output-name input
\* to "index" and keeps the label, exportFormat and debugEnabled; from
\* ReviewingConfig the jump to step 1, 2 or 3 changes the step (and the focus
\* of the label input) and no text.
C39_SelectResetsName ==
    /\ NavigationMode(m) =>
           \A k \in {" ", "enter"} :
               LET n == UpdateKey(m, k).m
               IN n.state = "selectingOutput" =>
                      /\ n.outputInput.value = IndexName
                      /\ n.litigantInput = m.litigantInput
                      /\ n.litigantName = m.litigantName
                      /\ n.exportFormat = m.exportFormat
                      /\ n.debugMode = m.debugMode
    /\ m.state = "configuring" =>
           /\ UpdateKey(m, "1").m = [m EXCEPT !.state = "selectingDirectory"]
           /\ UpdateKey(m, "2").m = [m EXCEPT !.state = "selectingOutput"]
           /\ UpdateKey(m, "3").m = [m EXCEPT !.state = "selectingLitigant",
                                              !.litigantInput.focus = TRUE]

\* step 1 re-opened from ReviewingConfig with an edited name, a label and
\* settings of the advanced mode
C39_Witness ==
    /\ NavigationMode(m)
    /\ m.outputInput.value # IndexName
    /\ m.outputPath = m.outputInput.value
    /\ m.litigantName # EmptyStr
    /\ m.exportFormat # "excel"
    /\ UpdateKey(m, " ").m.outputInput.value = IndexName

\* C40: the save path previewed in NamingOutput is the --output path of the
\* run that follows when the name is confirmed as it stands and the label and
\* the configuration are confirmed without a change.
C40_PreviewIsOutputPath ==
    m.state = "selectingOutput" =>
        LET named == UpdateKey(m, "enter").m
            labelled == UpdateKey(named, "enter").m
            launch == UpdateKey(labelled, "enter")
        IN launch.cmd = "run" => fullOutputPath(launch.m) = previewPath(m)

\* filepath.Ext(name): the ending of the last element from its last dot on
Ext(name) ==
    IF HasExtension(name)
    THEN LET i == CHOOSE k \in 1..Len(name) :
                      /\ name[k] = "."
                      /\ \A j \in (k + 1)..Len(name) : name[j] \notin {".", "/"}
         IN SubSeq(name, i, Len(name))
    ELSE EmptyStr

\* the name the extension toggle is to give
Toggled(name, format) ==
    IF ~HasExtension(name) THEN name \o DefaultExtension(format)
    ELSE IF HasSuffix(name, ExtXlsx) THEN TrimSuffix(name, ExtXlsx) \o ExtCsv
    ELSE IF HasSuffix(name, ExtCsv) THEN TrimSuffix(name, ExtCsv) \o ExtXlsx
    ELSE name

\* C32: the extension toggle of NamingOutput appends the default extension of
\* the export format to a name without extension, replaces .xlsx by .csv and
\* .csv by .xlsx, leaves a name with another extension as it is, and changes
\* nothing but the name.
C32_ExtensionToggle ==
    m.state = "selectingOutput" =>
        outputTab(m) =
            [m EXCEPT !.outputInput.value = Toggled(@, m.exportFormat)]

\* the extension is none of the two the toggle knows
Unrecognized(name) ==
    HasExtension(name) /\ ~HasSuffix(name, ExtCsv) /\ ~HasSuffix(name, ExtXlsx)

\* C33 as stated: two toggles with the same export format give the name its
\* original extension back, except that both leave a name with an
\* unrecognized extension as it is.
C33_TwoTogglesRestore ==
    m.state = "selectingOutput" =>
        LET name == m.outputInput.value
            once == outputTab(m).outputInput.value
            twice == outputTab(outputTab(m)).outputInput.value
        IN IF Unrecognized(name) THEN once = name /\ twice = name
           ELSE Ext(twice) = Ext(name)

\* C33: two toggles with the same export format give back a name that ends
\* in .xlsx or .csv, the first having changed it; a name without a dot gets
\* the default extension of the format and then the other one; every other
\* name is left as it is by both.
C33_TwoToggles ==
    m.state = "selectingOutput" =>
        LET name == m.outputInput.value
            once == outputTab(m).outputInput.value
            twice == outputTab(outputTab(m)).outputInput.value
            default == DefaultExtension(m.exportFormat)
        IN IF HasSuffix(name, ExtCsv) \/ HasSuffix(name, ExtXlsx)
           THEN once # name /\ twice = name /\ Ext(twice) = Ext(name)
           ELSE IF \A i \in 1..Len(name) : name[i] # "."
           THEN /\ once = name \o default
                /\ twice = name \o (IF default = ExtCsv THEN ExtXlsx ELSE ExtCsv)
           ELSE once = name /\ twice = name

\* a name that was toggled once: it ends in .csv, the format being csv
C33_Witness ==
    /\ m.state = "selectingOutput"
    /\ m.exportFormat = "csv"
    /\ m.outputInput.value = <<"a">> \o ExtCsv
    /\ outputTab(outputTab(m)) = m

\* no path of the walk goes through a link
LinkFree(w) ==
    /\ \A i \in 1..Len(w.arg) : w.arg[i] # "l"
    /\ \A k \in 1..Len(w.stack) :
           \A i \in 1..Len(w.stack[k].path) : w.stack[k].path[i] # "l"

\* a regular file or a link lies in the directory d of the tree or below it
WalkHolds(w, d) ==
    \E q \in w.dirs :
        /\ q = d \/ HasPrefix(q, d \o <<"/">>)
        /\ q \in w.files \cup w.links

\* C31: the recursive emptiness check terminates on every finite tree, links
\* that form cycles included: links are not followed, the depth of the
\* recursion stays within the depth of the tree, and the value returned is
\* false exactly if something other than a directory lies in the tree.
C31_WalkTerminates ==
    /\ <>(walk.pc = "done")
    /\ [](/\ LinkFree(walk)
          /\ Len(walk.stack) < MaxWalkDepth
          /\ walk.pc = "done" =>
                 (walk.ret = "false" <=> WalkHolds(walk, WalkTop)))

\* the walk is over on a tree whose deepest directory holds a link back to
\* the top, and nothing else lies in the tree
C31_Witness ==
    /\ walk.pc = "done"
    /\ walk.files = {}
    /\ walk.links = {Join(Join(WalkTop, <<"a">>), <<"a">>)}
    /\ Join(Join(WalkTop, <<"a">>), <<"a">>) \in walk.dirs
    /\ walk.ret = "false"
====
